---- MODULE Spec2Model ----
(***************************************************************************)
(* Computerized Adaptive Testing of the recruitment backend.               *)
(*                                                                         *)
(*   cat_engine.py  CATEngine: 3PL model, item selection, theta update,    *)
(*                  stop rule, final results                               *)
(*   main.py        /cat/start, /cat/next-item, /cat/submit-answer,        *)
(*                  /cat/complete: the request handlers over the database  *)
(*                                                                         *)
(* Fixed-point units.  theta, b and SE: thousandths.  a: tenths.           *)
(* c: hundredths.  probabilities: per mille.  information: thousandths.    *)
(* TLC integers are 32 bit; every product below stays under 2^31.          *)
(***************************************************************************)
EXTENDS Integers, Sequences, FiniteSets, TLC

\* ------------------------------------------------------------------------
\* Bounds of the model
\* ------------------------------------------------------------------------
\* number of rows of cat_items
NumItems == 2
\* number of items of a directly driven engine
NumEngineItems == 4
\* number of applications (candidates) holding an exam key
NumApps == 1
\* number of stored sessions when calibration is run on its own
NumCalSessions == 6
\* number of calibration runs on its own in a row
MaxCalibrationRuns == 2
\* cap on the rows of cat_sessions the clients cause to be created
MaxSessions == 2
\* cap on the rows of cat_item_responses the clients cause to be created
MaxResponses == 2
\* cap on the process_response calls made on a directly driven engine
MaxEngineCalls == 3
\* largest min_items / max_items a directly driven engine is built with
MaxPolicyItems == 2

\* ------------------------------------------------------------------------
\* Program constants
\* ------------------------------------------------------------------------
B_MIN == -3000
B_MAX == 3000
\* ranges of a (tenths) and c (hundredths)
A_MIN == 5
A_MAX == 20
C_MIN == 15
C_MAX == 30
\* float('inf') of standard_error: larger than every finite SE of the model
Inf == 1000000
\* CATEngine.__init__ defaults.  The source sets max_items = min_items = 20
\* and submit_cat_answer refuses at 30 stored answers; the model keeps the
\* three numbers in the same order (min = max < cap) scaled to a bank of
\* NumItems rows.
DEFAULT_MAX_ITEMS == 2
DEFAULT_MIN_ITEMS == 2
DEFAULT_TARGET_SE == 300
SUBMIT_MAX_QUESTIONS == 3

\* Python's None where an object is expected
None == [none |-> TRUE]
\* a NULL column is the empty set, a column holding v the set {v}
Null == {}
Some(v) == {v}

Max(x, y) == IF x >= y THEN x ELSE y
Min(x, y) == IF x <= y THEN x ELSE y
Abs(x) == IF x >= 0 THEN x ELSE 0 - x

\* str.upper() on the option letters a client can send
Upper(s) ==
  CASE s = "a" -> "A"
    [] s = "b" -> "B"
    [] s = "c" -> "C"
    [] s = "d" -> "D"
    [] OTHER -> s

\* round(x, 2) of a value held in thousandths: nearest multiple of 10
Round2(x) == ((x + 5) \div 10) * 10

\* ------------------------------------------------------------------------
\* Psychometric model (cat_engine.py 72-105)
\* ------------------------------------------------------------------------
\* 1000 / (1 + exp(-z)) at z = 0, 1, ..., 13
LogisticKnots == <<500, 731, 881, 953, 982, 993, 998, 999, 1000, 1000, 1000, 1000, 1000, 1000>>

\* 1 / (1 + exp(-z)) per mille, z in units of 1/10000, linear between knots
Logistic(z) ==
  LET m == Min(Abs(z), 120000)
      k == m \div 10000
      f == m % 10000
      lo == LogisticKnots[k + 1]
      hi == LogisticKnots[k + 2]
      v == lo + ((hi - lo) * f) \div 10000
  IN IF z >= 0 THEN v ELSE 1000 - v

\* P(theta) = c + (1-c) / (1 + exp(-a(theta-b)))
probability_correct(theta, a, b, c) ==
  c * 10 + ((1000 - c * 10) * Logistic(a * (theta - b))) \div 1000

\* I(theta) = a^2 P (1-P) / (1-c)^2
item_information(theta, a, b, c) ==
  LET p == probability_correct(theta, a, b, c)
      q == 1000 - p
      numerator == a * a * p * q
      denominator == (100 - c) * (100 - c)
  IN IF denominator > 0 THEN numerator \div (10 * denominator) ELSE 0

\* next((i for i in items if i.id == item_id), None)
FindItem(items, item_id) ==
  IF \E k \in 1..Len(items) : items[k].id = item_id
  THEN items[CHOOSE k \in 1..Len(items) :
               /\ items[k].id = item_id
               /\ \A j \in 1..(k - 1) : items[j].id # item_id]
  ELSE None

RECURSIVE TestInfoFrom(_, _, _, _)
TestInfoFrom(items, theta, administered_items, k) ==
  IF k > Len(administered_items) THEN 0
  ELSE LET item == FindItem(items, administered_items[k])
           rest == TestInfoFrom(items, theta, administered_items, k + 1)
       IN IF item # None
          THEN item_information(theta, item.a, item.b, item.c) + rest
          ELSE rest

test_information(items, theta, administered_items) ==
  TestInfoFrom(items, theta, administered_items, 1)

RECURSIVE SqrtSearch(_, _, _)
SqrtSearch(n, lo, hi) ==
  IF lo >= hi THEN lo
  ELSE LET mid == (lo + hi + 1) \div 2
       IN IF mid * mid <= n THEN SqrtSearch(n, mid, hi)
          ELSE SqrtSearch(n, lo, mid - 1)

\* floor of the square root, n < 2^31
ISqrt(n) == SqrtSearch(n, 0, 46340)

\* SE(theta) = 1 / sqrt(I(theta)), inf when I = 0
standard_error(items, theta, administered_items) ==
  LET info == test_information(items, theta, administered_items)
  IN IF info > 0 THEN ISqrt(1000000000 \div info) ELSE Inf

\* ------------------------------------------------------------------------
\* CATEngine (cat_engine.py 35-265)
\* ------------------------------------------------------------------------
\* CATItem of cat_engine.py: the fields the engine reads
EngineItem(id, correct, a, b, c) ==
  [id |-> id, correct |-> correct, a |-> a, b |-> b, c |-> c]

CATResponse(item_id, selected_option, is_correct, theta_before, theta_after, se_after) ==
  [item_id |-> item_id, selected_option |-> selected_option,
   is_correct |-> is_correct, theta_before |-> theta_before,
   theta_after |-> theta_after, se_after |-> se_after]

\* CATEngine.__init__
NewEngine(items, max_items, min_items, target_se, initial_theta) ==
  [items |-> items, max_items |-> max_items, min_items |-> min_items,
   target_se |-> target_se, initial_theta |-> initial_theta,
   current_theta |-> initial_theta,
   responses |-> <<>>, administered_items |-> <<>>]

InSeq(x, s) == \E k \in 1..Len(s) : s[k] = x

\* the scan answering the last item of the pool
MaxInfoScan_last(e, pool, k, max_info, best_item) ==
  IF k > Len(pool) THEN best_item ELSE pool[Len(pool)]

RECURSIVE MaxInfoScan(_, _, _, _, _)
\* the loop of select_next_item: the first item of strictly greater
\* information replaces best_item
MaxInfoScan(e, pool, k, max_info, best_item) ==
  IF k > Len(pool) THEN best_item
  ELSE LET item == pool[k]
           info == item_information(e.current_theta, item.a, item.b, item.c)
       IN IF info > max_info
          THEN MaxInfoScan(e, pool, k + 1, info, item)
          ELSE MaxInfoScan(e, pool, k + 1, max_info, best_item)

\* select_next_item scanning the whole bank, administered items included
select_next_item_any(e) ==
  IF e.items = <<>> THEN None
  ELSE MaxInfoScan(e, e.items, 1, -1, None)

\* select_next_item with the two windows exchanged: easier items after a
\* correct answer, harder ones after a wrong one
select_next_item_swapped(e) ==
  LET available_items ==
        SelectSeq(e.items, LAMBDA item : ~InSeq(item.id, e.administered_items))
      harder_items ==
        SelectSeq(available_items, LAMBDA item : item.b > e.current_theta - 500)
      easier_items ==
        SelectSeq(available_items, LAMBDA item : item.b < e.current_theta + 500)
      pool ==
        IF Len(e.responses) > 0
        THEN IF e.responses[Len(e.responses)].is_correct
             THEN IF easier_items # <<>> THEN easier_items ELSE available_items
             ELSE IF harder_items # <<>> THEN harder_items ELSE available_items
        ELSE available_items
  IN IF available_items = <<>> THEN None
     ELSE MaxInfoScan(e, pool, 1, -1, None)

\* CATEngine.select_next_item
select_next_item(e) ==
  LET available_items ==
        SelectSeq(e.items, LAMBDA item : ~InSeq(item.id, e.administered_items))
      harder_items ==
        SelectSeq(available_items, LAMBDA item : item.b > e.current_theta - 500)
      easier_items ==
        SelectSeq(available_items, LAMBDA item : item.b < e.current_theta + 500)
      pool ==
        IF Len(e.responses) > 0
        THEN IF e.responses[Len(e.responses)].is_correct
             THEN IF harder_items # <<>> THEN harder_items ELSE available_items
             ELSE IF easier_items # <<>> THEN easier_items ELSE available_items
        ELSE available_items
  IN IF available_items = <<>> THEN None
     ELSE MaxInfoScan(e, pool, 1, -1, None)

\* points of [-3, 3] at which the likelihood is evaluated
ThetaGrid == {-3000, -2000, -1000, 0, 1000, 2000, 3000}

RECURSIVE LikelihoodFrom(_, _, _, _)
\* exp(-neg_log_likelihood(theta)): the product over the responses of p for
\* a correct and 1 - p for an incorrect answer, p in percent and clamped
\* away from 0 and 1
LikelihoodFrom(items, response_list, theta, k) ==
  IF k > Len(response_list) THEN 1
  ELSE LET item == FindItem(items, response_list[k].item_id)
           rest == LikelihoodFrom(items, response_list, theta, k + 1)
       IN IF item # None
          THEN LET p == Max(Min(probability_correct(theta, item.a, item.b, item.c)
                                  \div 10, 99), 1)
               IN (IF response_list[k].is_correct THEN p ELSE 100 - p) * rest
          ELSE rest

\* CATEngine.update_theta: the results minimize_scalar(bounds=(-3, 3)) can
\* return, here the lowest grid point of greatest likelihood
update_theta(items, response_list) ==
  LET L(t) == LikelihoodFrom(items, response_list, t, 1)
      best == {t \in ThetaGrid : \A u \in ThetaGrid : L(u) <= L(t)}
  IN {CHOOSE t \in best : \A u \in best : t <= u}

\* process_response, lines 180-183: what update_theta returns for the new
\* answer put in front of the stored ones
ThetaAfter(e, item_id, selected_option) ==
  LET item == FindItem(e.items, item_id)
  IN IF item = None THEN {e.current_theta}
     ELSE update_theta(e.items,
            <<[item_id |-> item_id,
               is_correct |-> (Upper(selected_option) = Upper(item.correct))]>>
            \o [k \in 1..Len(e.responses) |->
                  [item_id |-> e.responses[k].item_id,
                   is_correct |-> e.responses[k].is_correct]])

\* process_response losing the stored CATResponse of an accepted answer
process_response_no_store(e, item_id, selected_option, theta_after) ==
  LET item == FindItem(e.items, item_id)
  IN IF item = None
     THEN [raised |-> "ValueError", engine |-> e, result |-> None]
     ELSE
       LET is_correct == (Upper(selected_option) = Upper(item.correct))
           administered == Append(e.administered_items, item_id)
       IN [raised |-> "",
           engine |-> [e EXCEPT !.current_theta = theta_after,
                                !.administered_items = administered],
           result |-> [is_correct |-> is_correct,
                       theta |-> Round2(theta_after),
                       se |-> standard_error(e.items, theta_after, administered),
                       num_items |-> Len(administered)]]

\* process_response recording the item as administered before it looks it up
process_response_append_first(e, item_id, selected_option, theta_after) ==
  LET item == FindItem(e.items, item_id)
      administered == Append(e.administered_items, item_id)
  IN IF item = None
     THEN [raised |-> "ValueError",
           engine |-> [e EXCEPT !.administered_items = administered],
           result |-> None]
     ELSE
       LET is_correct == (Upper(selected_option) = Upper(item.correct))
           se_after == standard_error(e.items, theta_after, administered)
           cat_response == CATResponse(item_id, selected_option, is_correct,
                                       e.current_theta, theta_after, se_after)
       IN [raised |-> "",
           engine |-> [e EXCEPT !.current_theta = theta_after,
                                !.administered_items = administered,
                                !.responses = Append(e.responses, cat_response)],
           result |-> [is_correct |-> is_correct,
                       theta |-> Round2(theta_after),
                       se |-> se_after,
                       num_items |-> Len(administered)]]

\* CATEngine.process_response; theta_after is the value update_theta gave
process_response(e, item_id, selected_option, theta_after) ==
  LET item == FindItem(e.items, item_id)
  IN IF item = None
     THEN [raised |-> "ValueError", engine |-> e, result |-> None]
     ELSE
       LET is_correct == (Upper(selected_option) = Upper(item.correct))
           theta_before == e.current_theta
           administered == Append(e.administered_items, item_id)
           se_after == standard_error(e.items, theta_after, administered)
           cat_response == CATResponse(item_id, selected_option, is_correct,
                                       theta_before, theta_after, se_after)
       IN [raised |-> "",
           engine |-> [e EXCEPT !.current_theta = theta_after,
                                !.administered_items = administered,
                                !.responses = Append(e.responses, cat_response)],
           result |-> [is_correct |-> is_correct,
                       theta |-> Round2(theta_after),
                       se |-> se_after,
                       num_items |-> Len(administered)]]

\* should_continue stopping only above max_items
should_continue_above_max(e) ==
  LET num_items == Len(e.administered_items)
  IN IF num_items < e.min_items THEN TRUE
     ELSE IF num_items > e.max_items THEN FALSE
     ELSE IF standard_error(e.items, e.current_theta, e.administered_items)
               <= e.target_se
          THEN FALSE
          ELSE TRUE

\* should_continue testing the SE before the minimum
should_continue_se_first(e) ==
  LET num_items == Len(e.administered_items)
  IN IF standard_error(e.items, e.current_theta, e.administered_items)
          <= e.target_se
     THEN FALSE
     ELSE IF num_items < e.min_items THEN TRUE
     ELSE IF num_items >= e.max_items THEN FALSE
     ELSE TRUE

\* should_continue without the SE test
should_continue_no_se(e) ==
  LET num_items == Len(e.administered_items)
  IN IF num_items < e.min_items THEN TRUE
     ELSE IF num_items >= e.max_items THEN FALSE
     ELSE TRUE

\* CATEngine.should_continue
should_continue(e) ==
  LET num_items == Len(e.administered_items)
  IN IF num_items < e.min_items THEN TRUE
     ELSE IF num_items >= e.max_items THEN FALSE
     ELSE IF standard_error(e.items, e.current_theta, e.administered_items)
               <= e.target_se
          THEN FALSE
          ELSE TRUE

\* CATEngine._interpret_theta
interpret_theta(theta) ==
  IF theta < -1000 THEN "Below Average"
  ELSE IF theta < 0 THEN "Average"
  ELSE IF theta < 1000 THEN "Above Average"
  ELSE IF theta < 2000 THEN "Excellent"
  ELSE "Exceptional"

\* 1000 * Phi(z) of the standard normal at z = 0, 1, 2, 3, 4
NormKnots == <<500, 841, 977, 999, 1000>>

\* round(norm.cdf(theta) * 100, 1) in tenths of a percent
Percentile(theta) ==
  LET m == Min(Abs(theta), 3000)
      k == m \div 1000
      f == m % 1000
      v == NormKnots[k + 1] + ((NormKnots[k + 2] - NormKnots[k + 1]) * f) \div 1000
  IN IF theta >= 0 THEN v ELSE 1000 - v

NumCorrect(responses) ==
  Cardinality({k \in 1..Len(responses) : responses[k].is_correct})

\* get_final_results counting every response as correct
get_final_results_all_correct(e) ==
  LET theta == e.current_theta
      se == standard_error(e.items, theta, e.administered_items)
      num_correct == Len(e.responses)
      n == Len(e.responses)
      accuracy == IF n > 0 THEN (2 * num_correct * 1000 + n) \div (2 * n) ELSE 0
  IN [theta |-> Round2(theta), se |-> se, percentile |-> Percentile(theta),
      num_items |-> Len(e.administered_items), num_correct |-> num_correct,
      accuracy |-> accuracy, ability_level |-> interpret_theta(theta)]

\* CATEngine.get_final_results; accuracy in tenths of a percent
get_final_results(e) ==
  LET theta == e.current_theta
      se == standard_error(e.items, theta, e.administered_items)
      num_correct == NumCorrect(e.responses)
      n == Len(e.responses)
      accuracy == IF n > 0 THEN (2 * num_correct * 1000 + n) \div (2 * n) ELSE 0
  IN [theta |-> Round2(theta), se |-> se, percentile |-> Percentile(theta),
      num_items |-> Len(e.administered_items), num_correct |-> num_correct,
      accuracy |-> accuracy, ability_level |-> interpret_theta(theta)]

\* ------------------------------------------------------------------------
\* State
\* ------------------------------------------------------------------------
VARIABLES
  \* tables of the database (database_models.py), committed rows only
  cat_items,            \* cat_items, in id order
  applications,         \* applications, in id order
  cat_sessions,         \* cat_sessions, in id order
  cat_item_responses,   \* cat_item_responses, in id order
  \* request handlers in progress: one record per worker thread
  threads,
  \* the request that finished last: endpoint, status code, detail
  last,
  \* a CATEngine instance driven directly by its caller, or None
  engine,
  \* what the last call on that instance returned
  ret

vars == <<cat_items, applications, cat_sessions, cat_item_responses,
          threads, last, engine, ret>>

dbvars == <<cat_items, applications, cat_sessions, cat_item_responses>>

\* worker threads of the server: sync handlers run in a thread pool
Workers == {"w1", "w2"}

ItemIds == 1..NumItems
AppIds == 1..NumApps
\* option letters clients send: "a" is right for the items whose key is A
\* and wrong for the others, "E" is not an option
Options == {"a", "E"}
Stages == {"aptitude", "applied"}
\* target_se values a directly driven engine is built with
TargetSEs == {DEFAULT_TARGET_SE, 1200}

\* the seeded bank (seed_cat_items.py): a, b, c within their ranges
SeedItem(i) ==
  [id |-> i,
   correct |-> IF i % 2 = 1 THEN "A" ELSE "B",
   a |-> CASE i % 3 = 1 -> 10 [] i % 3 = 2 -> 20 [] OTHER -> 15,
   b |-> CASE i % 4 = 1 -> 0 [] i % 4 = 2 -> 500 [] i % 4 = 3 -> -1000 [] OTHER -> 2000,
   c |-> CASE i % 3 = 1 -> 25 [] i % 3 = 2 -> 15 [] OTHER -> 20,
   used_count |-> 0,
   correct_count |-> 0]

Idle == [pc |-> "idle"]
NoResponse == [kind |-> "none", status |-> 0, detail |-> ""]
NoReturn == [call |-> "none"]

\* [CATItemClass(id=..., correct=..., a=..., b=..., c=...) for item in all_items]
ToCatItems(all_items) ==
  [k \in 1..Len(all_items) |->
     EngineItem(all_items[k].id, all_items[k].correct,
                all_items[k].a, all_items[k].b, all_items[k].c)]

\* the deployed service: a bank of up to NumItems seeded items,
\* applications without sessions
InitService ==
  /\ \E n \in 0..NumItems : cat_items = [i \in 1..n |-> SeedItem(i)]
  /\ applications \in
       {[a \in AppIds |-> [id |-> a, candidate_id |-> a,
                           current_stage |-> st[a],
                           cat_completed |-> FALSE,
                           cat_theta |-> Null, cat_percentile |-> Null]] :
        st \in [AppIds -> Stages]}
  /\ cat_sessions = <<>>
  /\ cat_item_responses = <<>>
  /\ threads = [w \in Workers |-> Idle]
  /\ last = NoResponse
  /\ engine = None
  /\ ret = NoReturn

\* the seeded items followed by an item with the a, b and c of the last one
TwinBank ==
  [i \in 1..(NumEngineItems + 1) |->
     IF i <= NumEngineItems THEN SeedItem(i)
     ELSE [SeedItem(NumEngineItems) EXCEPT !.id = i]]

\* the banks a directly driven engine is built over: none, one or
\* NumEngineItems seeded items, or the bank with two items alike
EngineBanks ==
  {[i \in 1..n |-> SeedItem(i)] : n \in {0, 1, NumEngineItems}} \cup {TwinBank}

\* a CATEngine built by its caller over one of these banks, with any policy
\* (one policy for the bank with two items alike: select_next_item reads
\* none of max_items, min_items, target_se)
InitEngine ==
  /\ cat_items = <<>>
  /\ applications = <<>>
  /\ cat_sessions = <<>>
  /\ cat_item_responses = <<>>
  /\ threads = [w \in Workers |-> Idle]
  /\ last = NoResponse
  /\ \E bank \in EngineBanks, mx \in 1..MaxPolicyItems,
        mn \in 0..MaxPolicyItems, t \in TargetSEs :
       /\ bank = TwinBank
            => (mx = MaxPolicyItems /\ mn = 0 /\ t = DEFAULT_TARGET_SE)
       /\ engine = NewEngine(ToCatItems(bank), mx, mn, t, 0)
  /\ ret = NoReturn

\* ------------------------------------------------------------------------
\* Calls on a directly driven engine
\* ------------------------------------------------------------------------
EngProcessResponse(item_id, selected_option) ==
  /\ engine # None
  /\ Len(engine.responses) < MaxEngineCalls
  /\ \E theta_after \in ThetaAfter(engine, item_id, selected_option) :
       LET r == process_response(engine, item_id, selected_option, theta_after)
       IN /\ engine' = r.engine
          /\ ret' = [call |-> "process_response", item_id |-> item_id,
                     raised |-> r.raised, value |-> r.result]
  /\ UNCHANGED <<dbvars, threads, last>>

EngShouldContinue ==
  /\ engine # None
  /\ ret' = [call |-> "should_continue", value |-> should_continue(engine)]
  /\ UNCHANGED <<dbvars, threads, last, engine>>

EngSelectNextItem ==
  /\ engine # None
  /\ LET item == select_next_item(engine)
     IN ret' = [call |-> "select_next_item",
                value |-> IF item = None THEN 0 ELSE item.id]
  /\ UNCHANGED <<dbvars, threads, last, engine>>

EngGetFinalResults ==
  /\ engine # None
  /\ ret' = [call |-> "get_final_results", value |-> get_final_results(engine)]
  /\ UNCHANGED <<dbvars, threads, last, engine>>

\* ------------------------------------------------------------------------
\* Request handlers (main.py 1775-2065)
\*
\* Every handler runs in its own database session (get_db) on a pool
\* thread.  Its queries read committed rows; its own changes reach the
\* tables at db.commit().  A handler that writes is two steps: the queries
\* and checks up to the point where it holds its loaded objects, then the
\* computation on the loaded objects and the commit.
\* ------------------------------------------------------------------------
Respond(w, kind, status, detail) ==
  /\ threads' = [threads EXCEPT ![w] = Idle]
  /\ last' = [kind |-> kind, status |-> status, detail |-> detail]

InFlight(pc) == {w \in Workers : threads[w].pc = pc}

\* .filter(application_id == a, is_active == True).first()
ActiveSessionsOf(a) ==
  {k \in 1..Len(cat_sessions) :
     cat_sessions[k].application_id = a /\ cat_sessions[k].is_active}

FirstOf(S) == CHOOSE k \in S : \A j \in S : k <= j

\* .filter(CATItemResponse.session_id == sid).all()
ResponsesOf(sid) ==
  SelectSeq(cat_item_responses, LAMBDA r : r.session_id = sid)

\* engine = CATEngine(items=cat_items, initial_theta=session.current_theta)
\* followed by the copy of the stored responses into the engine
Rehydrate(engine_items, current_theta, rows) ==
  [NewEngine(engine_items, DEFAULT_MAX_ITEMS, DEFAULT_MIN_ITEMS,
             DEFAULT_TARGET_SE, current_theta)
     EXCEPT !.current_theta = current_theta,
            !.administered_items = [k \in 1..Len(rows) |-> rows[k].item_id],
            !.responses = [k \in 1..Len(rows) |->
                             CATResponse(rows[k].item_id, rows[k].selected_option,
                                         rows[k].is_correct, rows[k].theta_before,
                                         rows[k].theta_after, rows[k].se_after)]]

\* start_cat_exam, up to the session query
StartBegin(w, a) ==
  /\ engine = None
  /\ threads[w].pc = "idle"
  /\ IF a \notin DOMAIN applications
     THEN Respond(w, "start", 401, "Invalid email or exam key")
     ELSE IF applications[a].cat_completed
     THEN Respond(w, "start", 400, "You have already completed this exam")
     ELSE IF applications[a].current_stage # "aptitude"
     THEN Respond(w, "start", 400, "not at the aptitude test stage")
     ELSE IF ActiveSessionsOf(a) # {}
     THEN Respond(w, "start", 200, "resumed")
     ELSE /\ Len(cat_sessions) + Cardinality(InFlight("start_commit")) < MaxSessions
          /\ threads' = [threads EXCEPT ![w] = [pc |-> "start_commit", app |-> a]]
          /\ UNCHANGED last
  /\ UNCHANGED <<dbvars, engine, ret>>

\* start_cat_exam: db.add(session); db.commit(); db.refresh(session)
StartCommit(w) ==
  /\ threads[w].pc = "start_commit"
  /\ LET id == Len(cat_sessions) + 1
         row == [id |-> id, application_id |-> threads[w].app,
                 current_theta |-> 0, current_se |-> Null,
                 num_items_administered |-> 0, is_active |-> TRUE,
                 completed_at |-> Null, final_theta |-> Null,
                 final_se |-> Null, final_percentile |-> Null,
                 num_correct |-> Null, accuracy |-> Null]
     IN /\ cat_sessions' = Append(cat_sessions, row)
        /\ Respond(w, "start", 200, "created")
  /\ UNCHANGED <<cat_items, applications, cat_item_responses, engine, ret>>

\* get_next_cat_item closing the session when the stop rule says stop
NextItem_closing(w, sid) ==
  /\ engine = None
  /\ threads[w].pc = "idle"
  /\ IF ~(sid \in 1..Len(cat_sessions) /\ cat_sessions[sid].is_active)
     THEN Respond(w, "next", 404, "Session not found") /\ UNCHANGED dbvars
     ELSE LET e == Rehydrate(ToCatItems(cat_items), cat_sessions[sid].current_theta,
                             ResponsesOf(sid))
              next_item == select_next_item(e)
          IN IF ~should_continue(e)
             THEN /\ Respond(w, "next", 400, "Exam complete")
                  /\ cat_sessions' = [cat_sessions EXCEPT ![sid].is_active = FALSE]
                  /\ UNCHANGED <<cat_items, applications, cat_item_responses>>
             ELSE IF next_item = None
             THEN Respond(w, "next", 500, "No suitable item") /\ UNCHANGED dbvars
             ELSE Respond(w, "next", 200, "item") /\ UNCHANGED dbvars
  /\ UNCHANGED <<engine, ret>>

\* get_next_cat_item
NextItem(w, sid) ==
  /\ engine = None
  /\ threads[w].pc = "idle"
  /\ IF ~(sid \in 1..Len(cat_sessions) /\ cat_sessions[sid].is_active)
     THEN Respond(w, "next", 404, "Session not found")
     ELSE IF cat_items = <<>>
     THEN Respond(w, "next", 500, "No items available")
     ELSE \E e \in {Rehydrate(ToCatItems(cat_items), cat_sessions[sid].current_theta,
                               ResponsesOf(sid))} :
            LET next_item == select_next_item(e)
            IN IF ~should_continue(e)
               THEN Respond(w, "next", 400, "Exam complete")
               ELSE IF next_item = None
               THEN Respond(w, "next", 500, "No suitable item")
               ELSE Respond(w, "next", 200, "item")
  /\ UNCHANGED <<dbvars, engine, ret>>

\* the responses the tables held before the server took requests
StoredBefore ==
  IF \E w \in Workers : threads[w].pc = "offline" THEN 2 * NumCalSessions ELSE 0

\* submit_cat_answer, up to the load of the stored responses (1899-1963)
SubmitBegin(w, sid, item_id, selected_option) ==
  /\ engine = None
  /\ threads[w].pc = "idle"
  /\ LET fail(status, detail) ==
           Respond(w, "submit", status, detail)
     IN IF Upper(selected_option) \notin {"A", "B", "C", "D"}
        THEN fail(400, "Invalid selected_option")
        ELSE IF sid \notin 1..Len(cat_sessions)
        THEN fail(404, "Session not found")
        ELSE IF ~cat_sessions[sid].is_active
        THEN fail(400, "Session is no longer active")
        ELSE IF cat_sessions[sid].num_items_administered >= SUBMIT_MAX_QUESTIONS
        THEN fail(400, "Maximum number of questions")
        ELSE IF item_id \notin 1..Len(cat_items)
        THEN fail(404, "Item not found")
        ELSE IF \E k \in 1..Len(cat_item_responses) :
                  /\ cat_item_responses[k].session_id = sid
                  /\ cat_item_responses[k].item_id = item_id
        THEN fail(400, "Already answered")
        ELSE /\ Len(cat_item_responses) + Cardinality(InFlight("submit_commit"))
                  < MaxResponses + StoredBefore
             /\ threads' = [threads EXCEPT ![w] =
                  [pc |-> "submit_commit", session_id |-> sid, item_id |-> item_id,
                   selected_option |-> selected_option,
                   current_theta |-> cat_sessions[sid].current_theta,
                   used_count |-> cat_items[item_id].used_count,
                   correct_count |-> cat_items[item_id].correct_count,
                   cat_items |-> ToCatItems(cat_items),
                   previous |-> ResponsesOf(sid)]]
             /\ UNCHANGED last
  /\ UNCHANGED <<dbvars, engine, ret>>

\* submit_cat_answer from engine.process_response to the response (1965-1996)
SubmitCommit(w) ==
  /\ threads[w].pc = "submit_commit"
  /\ LET t == threads[w]
         e == Rehydrate(t.cat_items, t.current_theta, t.previous)
     IN \E theta_after \in ThetaAfter(e, t.item_id, t.selected_option) :
          LET r == process_response(e, t.item_id, t.selected_option, theta_after)
              result == r.result
              cat_response ==
                [id |-> Len(cat_item_responses) + 1,
                 session_id |-> t.session_id, item_id |-> t.item_id,
                 selected_option |-> Upper(t.selected_option),
                 is_correct |-> result.is_correct,
                 theta_before |-> t.current_theta,
                 theta_after |-> result.theta,
                 se_after |-> result.se]
          IN /\ r.raised = ""
             /\ cat_item_responses' = Append(cat_item_responses, cat_response)
             /\ cat_sessions' = [cat_sessions EXCEPT ![t.session_id] =
                  [@ EXCEPT !.current_theta = result.theta,
                            !.current_se = Some(result.se),
                            !.num_items_administered = result.num_items]]
             /\ cat_items' = [cat_items EXCEPT ![t.item_id] =
                  [@ EXCEPT !.used_count = t.used_count + 1,
                            !.correct_count = IF result.is_correct
                                              THEN t.correct_count + 1
                                              ELSE @]]
             /\ Respond(w, "submit", 200,
                        IF should_continue(r.engine) THEN "continue" ELSE "stop")
  /\ UNCHANGED <<applications, engine, ret>>

\* ------------------------------------------------------------------------
\* CATEngine.recalibrate_item_bank (cat_engine.py 283-424)
\* ------------------------------------------------------------------------
\* what the girth estimator can do in one run: be missing, fail before it
\* returns, return estimates that fail while the second item is updated, or
\* return estimates for every item; and, the estimator missing, what the
\* fallback loop can do: raise while it updates the first or the second
\* item of the bank
EstimatorOutcomes ==
  {"unavailable", "raise", "partial", "ok", "fallback_raise_1", "fallback_raise_2"}

\* the index of the bank at which the fallback loop raises, past the bank
\* when it does not
FallbackRaisesAt(outcome, all_items) ==
  CASE outcome = "fallback_raise_1" -> 1
    [] outcome = "fallback_raise_2" -> 2
    [] OTHER -> Len(all_items) + 1

\* the (a, b, c) estimate threepl_mml returns for an item: below the ranges
\* for the items of odd id, above them for the others
EstimatorOutput(item_id) ==
  IF item_id % 2 = 1
  THEN [a |-> 3, b |-> -4200, c |-> -5]
  ELSE [a |-> 25, b |-> 4100, c |-> 50]

\* the query at 308-314 answering every stored response
CompletedIn_all(sessions, responses) == responses

\* the query at 308-314: responses joined to their session, the session
\* not active
CompletedIn(sessions, responses) ==
  SelectSeq(responses,
            LAMBDA r : /\ r.session_id \in 1..Len(sessions)
                       /\ ~sessions[r.session_id].is_active)

\* the rows that query returns on the committed tables
CompletedResponses == CompletedIn(cat_sessions, cat_item_responses)

\* session_responses: session_id -> {item_id: 1 or 0}, a later row of the
\* same session and item replacing an earlier one
SessionResponses(rows) ==
  [sid \in {rows[k].session_id : k \in 1..Len(rows)} |->
     [item_id \in {rows[k].item_id : k \in {j \in 1..Len(rows) : rows[j].session_id = sid}} |->
        LET ks == {k \in 1..Len(rows) :
                     rows[k].session_id = sid /\ rows[k].item_id = item_id}
            k0 == CHOOSE k \in ks : \A j \in ks : j <= k
        IN IF rows[k0].is_correct THEN 1 ELSE 0]]

\* the cells of row item_idx of data_matrix that are not NaN
ValidResponses(session_responses, all_items, item_idx) ==
  {sid \in DOMAIN session_responses :
     all_items[item_idx].id \in DOMAIN session_responses[sid]}

RECURSIVE SumOver(_, _, _)
SumOver(session_responses, item_id, sids) ==
  IF sids = {} THEN 0
  ELSE LET sid == CHOOSE x \in sids : TRUE
       IN session_responses[sid][item_id]
          + SumOver(session_responses, item_id, sids \ {sid})

\* -ln(p / (1 - p)) in thousandths for p per mille, to the next tenth
NegLogit(p) ==
  LET hi == Max(p, 1000 - p)
      k == CHOOSE k \in 0..30 :
             /\ (Logistic(k * 1000) >= hi \/ k = 30)
             /\ \A j \in 0..(k - 1) : Logistic(j * 1000) < hi
  IN IF p >= 500 THEN 0 - k * 100 ELSE k * 100

RECURSIVE PrimaryUpdate(_, _, _, _)
\* the loop at 363-381 over valid_item_indices, stopped by an exception
\* after `upto` items
PrimaryUpdate(mem, valid, idx, upto) ==
  IF idx > Len(valid) \/ idx > upto THEN mem
  ELSE LET est == EstimatorOutput(mem[valid[idx]].id)
           new_a == Max(5, est.a)
           new_c == Max(0, Min(40, est.c))
           new_b == Max(B_MIN, Min(B_MAX, est.b))
       IN PrimaryUpdate(
            [mem EXCEPT ![valid[idx]] =
               [@ EXCEPT !.a = new_a, !.b = new_b, !.c = new_c,
                         !.set_a = TRUE, !.set_b = TRUE, !.set_c = TRUE]],
            valid, idx + 1, upto)

RECURSIVE FallbackUpdate(_, _, _, _)
\* the loop at 394-420, left by an exception when it comes to update item
\* `raises_at` (the items with fewer than 5 responses are passed over
\* before any statement that can raise)
FallbackUpdate(mem, session_responses, item_idx, raises_at) ==
  IF item_idx > Len(mem) THEN mem
  ELSE LET valid_responses == ValidResponses(session_responses, mem, item_idx)
           n == Cardinality(valid_responses)
       IN IF n < 5
          THEN FallbackUpdate(mem, session_responses, item_idx + 1, raises_at)
          ELSE IF item_idx = raises_at THEN mem
          ELSE LET mean == (1000 * SumOver(session_responses, mem[item_idx].id,
                                           valid_responses)) \div n
                   p_correct == Max(50, Min(950, mean))
                   new_b == Max(B_MIN, Min(B_MAX, NegLogit(p_correct)))
                   old_b == mem[item_idx].b
                   updated_b == Max(B_MIN, Min(B_MAX, (8 * old_b + 2 * new_b) \div 10))
               IN FallbackUpdate(
                    [mem EXCEPT ![item_idx] =
                       [@ EXCEPT !.b = updated_b, !.set_b = TRUE]],
                    session_responses, item_idx + 1, raises_at)

\* recalibrate_item_bank on the item objects the caller's database session
\* holds: the objects after the run, set_a / set_b / set_c marking the
\* attributes the run assigned; raised when the run left by an exception,
\* before its commit
recalibrate_item_bank(loaded_items, rows, min_users, outcome) ==
  LET mem == [k \in 1..Len(loaded_items) |->
                [id |-> loaded_items[k].id, a |-> loaded_items[k].a,
                 b |-> loaded_items[k].b, c |-> loaded_items[k].c,
                 set_a |-> FALSE, set_b |-> FALSE, set_c |-> FALSE]]
      session_responses == SessionResponses(rows)
      num_users == Cardinality(DOMAIN session_responses)
      valid == SelectSeq([k \in 1..Len(mem) |-> k],
                 LAMBDA k : ValidResponses(session_responses, mem, k) # {})
      raises_at == FallbackRaisesAt(outcome, mem)
  IN IF rows = <<>> THEN [skipped |-> TRUE, raised |-> FALSE, items |-> mem]
     ELSE IF num_users < min_users
     THEN [skipped |-> TRUE, raised |-> FALSE, items |-> mem]
     ELSE IF outcome = "ok" /\ valid = <<>>
     THEN [skipped |-> TRUE, raised |-> FALSE, items |-> mem]
     ELSE IF outcome = "ok"
     THEN [skipped |-> FALSE, raised |-> FALSE,
           items |-> PrimaryUpdate(mem, valid, 1, Len(valid))]
     ELSE [skipped |-> FALSE,
           raised |-> /\ raises_at \in 1..Len(mem)
                      /\ Cardinality(ValidResponses(session_responses, mem,
                                                     raises_at)) >= 5,
           items |-> FallbackUpdate(
                       IF outcome = "partial" /\ valid # <<>>
                       THEN PrimaryUpdate(mem, valid, 1, 1)
                       ELSE mem,
                       session_responses, 1, raises_at)]

\* db.commit() of the item objects: the assigned attributes reach the rows
CommitItems(rows, mem) ==
  [k \in 1..Len(rows) |->
     IF k \in 1..Len(mem)
     THEN [rows[k] EXCEPT !.a = IF mem[k].set_a THEN mem[k].a ELSE @,
                          !.b = IF mem[k].set_b THEN mem[k].b ELSE @,
                          !.c = IF mem[k].set_c THEN mem[k].c ELSE @]
     ELSE rows[k]]

\* complete_cat_exam: its queries, those of the calibration run it starts
\* included (main.py 2000-2030, cat_engine.py 303-314).  The session is
\* still active in the table when the run reads the completed responses:
\* the handler's assignment is not flushed (autoflush=False).
CompleteBegin(w, sid) ==
  /\ engine = None
  /\ threads[w].pc = "idle"
  /\ IF ~(sid \in 1..Len(cat_sessions) /\ cat_sessions[sid].is_active)
     THEN Respond(w, "complete", 404, "Session not found")
     ELSE /\ threads' = [threads EXCEPT ![w] =
               [pc |-> "complete_commit", session_id |-> sid,
                current_theta |-> cat_sessions[sid].current_theta,
                application_id |-> cat_sessions[sid].application_id,
                cat_items |-> ToCatItems(cat_items),
                responses |-> ResponsesOf(sid),
                rows |-> CompletedResponses]]
          /\ UNCHANGED last
  /\ UNCHANGED <<dbvars, engine, ret>>

\* complete_cat_exam from get_final_results to the response (main.py
\* 2032-2065), the calibration of the rows read included (cat_engine.py
\* 316-424): one commit writes the session, the application and the items.
\* An exception of the run is caught (2053-2054) and the handler's
\* db.commit() (2056) writes what the run had assigned.
CompleteCommit(w) ==
  /\ threads[w].pc = "complete_commit"
  /\ LET t == threads[w]
         e == Rehydrate(t.cat_items, t.current_theta, t.responses)
     IN \E results \in {get_final_results(e)} :
        /\ cat_sessions' = [cat_sessions EXCEPT ![t.session_id] =
             [@ EXCEPT !.completed_at = Some("now"),
                       !.is_active = FALSE,
                       !.final_theta = Some(results.theta),
                       !.final_se = Some(results.se),
                       !.final_percentile = Some(results.percentile),
                       !.num_correct = Some(results.num_correct),
                       !.accuracy = Some(results.accuracy)]]
        /\ applications' =
             IF t.application_id \in DOMAIN applications
             THEN [applications EXCEPT ![t.application_id] =
                    [@ EXCEPT !.cat_theta = Some(results.theta),
                              !.cat_percentile = Some(results.percentile),
                              !.cat_completed = TRUE]]
             ELSE applications
        /\ cat_items' \in
             {CommitItems(cat_items,
                recalibrate_item_bank(t.cat_items, t.rows, 1, outcome).items) :
              outcome \in EstimatorOutcomes}
        /\ Respond(w, "complete", 200, results.ability_level)
  /\ UNCHANGED <<cat_item_responses, engine, ret>>

\* ------------------------------------------------------------------------
\* Calibration on its own and content management
\* ------------------------------------------------------------------------
\* the exam server stopped
Offline == [pc |-> "offline"]

\* how the stored sessions answered: all right, all wrong, or the sessions
\* of odd id right and the others wrong
AnswerPatterns == {"right", "wrong", "mixed"}

\* the letter session sid sent for an item under a pattern
AnswerOf(pattern, sid, item) ==
  LET right == (pattern = "right") \/ (pattern = "mixed" /\ sid % 2 = 1)
  IN IF right THEN item.correct
     ELSE IF item.correct = "A" THEN "B" ELSE "A"

\* the items of the stored bank: one more than the sessions answered
NumCalItems == NumItems + 1

\* the seeded bank as the handlers hand it to the engine
CalBank == ToCatItems([i \in 1..NumCalItems |-> SeedItem(i)])

\* the response row submit_cat_answer stores (1965-1978) when session sid,
\* holding the rows `previous` at theta `theta`, answers item_id
PlayedRow(pattern, sid, item_id, theta, previous) ==
  LET e == Rehydrate(CalBank, theta, previous)
      option == AnswerOf(pattern, sid, FindItem(CalBank, item_id))
      theta_after == CHOOSE th \in ThetaAfter(e, item_id, option) : TRUE
      result == process_response(e, item_id, option, theta_after).result
  IN [id |-> 0, session_id |-> sid, item_id |-> item_id,
      selected_option |-> option, is_correct |-> result.is_correct,
      theta_before |-> theta, theta_after |-> result.theta,
      se_after |-> result.se]

\* the rows of a session: item 1, then item 2
PlayedRows(pattern, sid) ==
  CHOOSE played \in
    {<<first, PlayedRow(pattern, sid, 2, first.theta_after, <<first>>)>> :
       first \in {PlayedRow(pattern, sid, 1, 0, <<>>)}} :
    TRUE

RECURSIVE AllPlayed(_, _)
AllPlayed(pattern, sid) ==
  IF sid > NumCalSessions THEN <<>>
  ELSE PlayedRows(pattern, sid) \o AllPlayed(pattern, sid + 1)

\* the rows of cat_item_responses under a pattern, in id order
CalRows(pattern) ==
  CHOOSE rows \in
    {[k \in 1..Len(played) |-> [played[k] EXCEPT !.id = k]] :
       played \in {AllPlayed(pattern, 1)}} :
    TRUE

\* get_final_results of the session that stored `rows`
FinalOf(rows) ==
  get_final_results(Rehydrate(CalBank, rows[Len(rows)].theta_after, rows))

\* get_final_results of each of the sessions that stored `rows`
CalFinal(rows) ==
  [sid \in 1..NumCalSessions |->
     CHOOSE results \in
       {FinalOf(of) : of \in {SelectSeq(rows, LAMBDA r : r.session_id = sid)}} :
       TRUE]

\* tables holding NumCalSessions sessions that answered the first two items
\* of the seeded bank, those of `completed` completed, and two applications
\* of one candidate
CalibrationTables(completed, pattern) ==
    \E rows \in {CalRows(pattern)} :
    \E final \in {CalFinal(rows)} :
       /\ cat_items =
            [i \in 1..NumCalItems |->
               [SeedItem(i) EXCEPT
                  !.used_count = Len(SelectSeq(rows, LAMBDA r : r.item_id = i)),
                  !.correct_count =
                     Len(SelectSeq(rows, LAMBDA r : r.item_id = i /\ r.is_correct))]]
       /\ applications =
            [a \in 1..NumCalSessions |->
               [id |-> a, candidate_id |-> IF a = 1 THEN 1 ELSE a - 1,
                current_stage |-> "aptitude",
                cat_completed |-> (a \in completed),
                cat_theta |-> IF a \in completed THEN Some(final[a].theta) ELSE Null,
                cat_percentile |->
                  IF a \in completed THEN Some(final[a].percentile) ELSE Null]]
       /\ cat_sessions =
            [sid \in 1..NumCalSessions |->
               LET of == SelectSeq(rows, LAMBDA r : r.session_id = sid)
                   last_row == of[Len(of)]
                   done == sid \in completed
               IN [id |-> sid, application_id |-> sid,
                   current_theta |-> last_row.theta_after,
                   current_se |-> Some(last_row.se_after),
                   num_items_administered |-> Len(of),
                   is_active |-> ~done,
                   completed_at |-> IF done THEN Some("now") ELSE Null,
                   final_theta |-> IF done THEN Some(final[sid].theta) ELSE Null,
                   final_se |-> IF done THEN Some(final[sid].se) ELSE Null,
                   final_percentile |->
                     IF done THEN Some(final[sid].percentile) ELSE Null,
                   num_correct |-> IF done THEN Some(final[sid].num_correct) ELSE Null,
                   accuracy |-> IF done THEN Some(final[sid].accuracy) ELSE Null]]
       /\ cat_item_responses = rows

\* calibration run on its own: the exam server is stopped, the first
\* sessions of the tables completed
InitCalibration ==
  /\ \E completed \in 0..NumCalSessions, pattern \in AnswerPatterns :
       CalibrationTables(1..completed, pattern)
  /\ threads = [w \in Workers |-> Offline]
  /\ last = NoResponse
  /\ engine = None
  /\ ret = NoReturn

\* the worker that serves the last session
LastWorker == CHOOSE w \in Workers : TRUE

\* the exam server with one worker, every session completed but the first
InitLastSession ==
  /\ \E pattern \in AnswerPatterns :
       CalibrationTables(2..NumCalSessions, pattern)
  /\ threads = [w \in Workers |-> IF w = LastWorker THEN Idle ELSE Offline]
  /\ last = NoResponse
  /\ engine = None
  /\ ret = NoReturn


Init == InitService \/ InitEngine \/ InitCalibration \/ InitLastSession

\* a, b, c an administrator sends: within the ranges of the bank, below
\* them, above them
ItemParameters ==
  {[a |-> 12, b |-> 1000, c |-> 20],
   [a |-> 3, b |-> -3500, c |-> 10],
   [a |-> 25, b |-> 3500, c |-> 50]}

\* min_users values of a run on its own
MinUsers == {1, 2, NumCalSessions + 1}

\* update_cat_item (main.py 2229-2303) with a, b and c given: the values
\* are stored as sent
UpdateCatItem(item_id, a, b, c) ==
  /\ \A w \in Workers : threads[w] = Offline
  /\ item_id \in 1..Len(cat_items)
  /\ cat_items' = [cat_items EXCEPT ![item_id] = [@ EXCEPT !.a = a, !.b = b, !.c = c]]
  /\ UNCHANGED <<applications, cat_sessions, cat_item_responses,
                 threads, last, engine, ret>>

\* CATEngine.recalibrate_item_bank(db_session, min_users) called on its own
\* database session; when the run raises, its commit is not reached and
\* the session is closed without one
Recalibrate(min_users, outcome) ==
  /\ \A w \in Workers : threads[w] = Offline
  /\ (IF ret.call = "none" THEN 0 ELSE ret.runs) < MaxCalibrationRuns
  /\ LET r == recalibrate_item_bank(ToCatItems(cat_items), CompletedResponses,
                                    min_users, outcome)
     IN /\ cat_items' = IF r.raised THEN cat_items
                        ELSE CommitItems(cat_items, r.items)
        /\ ret' = [call |-> "recalibrate_item_bank", skipped |-> r.skipped,
                   raised |-> r.raised,
                   runs |-> (IF ret.call = "none" THEN 0 ELSE ret.runs) + 1]
  /\ UNCHANGED <<applications, cat_sessions, cat_item_responses,
                 threads, last, engine>>

\* ------------------------------------------------------------------------
\* Specification
\* ------------------------------------------------------------------------
Next ==
  \/ \E w \in Workers, a \in 1..(NumApps + 1) : StartBegin(w, a)
  \/ \E w \in Workers : StartCommit(w)
  \/ \E w \in Workers, sid \in 1..MaxSessions : NextItem(w, sid)
  \/ \E w \in Workers, sid \in 1..MaxSessions, item_id \in 1..(NumItems + 1),
        selected_option \in Options : SubmitBegin(w, sid, item_id, selected_option)
  \/ \E w \in Workers : SubmitCommit(w)
  \/ \E w \in Workers, sid \in 1..MaxSessions : CompleteBegin(w, sid)
  \/ \E w \in Workers : CompleteCommit(w)
  \/ \E item_id \in 1..(NumEngineItems + 1), selected_option \in Options :
        EngProcessResponse(item_id, selected_option)
  \/ EngShouldContinue
  \/ EngSelectNextItem
  \/ EngGetFinalResults
  \/ \E item_id \in ItemIds, p \in ItemParameters :
        UpdateCatItem(item_id, p.a, p.b, p.c)
  \/ \E min_users \in MinUsers, outcome \in EstimatorOutcomes :
        Recalibrate(min_users, outcome)

Spec == Init /\ [][Next]_vars

\* ------------------------------------------------------------------------
\* Properties
\* ------------------------------------------------------------------------
\* the engine a handler builds for session sid from the committed rows
SessionEngine(sid) ==
  Rehydrate(ToCatItems(cat_items), cat_sessions[sid].current_theta, ResponsesOf(sid))

\* the engine a submit handler in progress has built
SubmitEngine(w) ==
  Rehydrate(threads[w].cat_items, threads[w].current_theta, threads[w].previous)

Balanced(e) == Len(e.administered_items) = Len(e.responses)

\* C1: every engine, whether driven directly through accepted and rejected
\* process_response calls, rebuilt by a handler from the stored responses of
\* a session, or left by the process_response call of a submit handler,
\* holds as many administered item ids as responses.
C1_AdministeredEqualsResponses ==
  /\ engine # None => Balanced(engine)
  /\ \A sid \in 1..Len(cat_sessions) : Balanced(SessionEngine(sid))
  /\ \A w \in InFlight("submit_commit") :
       /\ Balanced(SubmitEngine(w))
       /\ \A th \in ThetaAfter(SubmitEngine(w), threads[w].item_id,
                               threads[w].selected_option) :
            Balanced(process_response(SubmitEngine(w), threads[w].item_id,
                                      threads[w].selected_option, th).engine)

\* an engine that accepted two answers and then rejected a call
C1_Witness ==
  /\ engine # None
  /\ Len(engine.responses) >= 2
  /\ ret.call = "process_response"
  /\ ret.raised = "ValueError"

\* C2 as stated: at or above max_items should_continue() is false, for
\* every policy
C2_StopsAtMaxForEveryPolicy ==
  (engine # None /\ Len(engine.administered_items) >= engine.max_items)
    => ~should_continue(engine)

\* C2 amended: at or above max_items and not below min_items
\* should_continue() is false, whatever the SE; this covers every count at
\* or above max_items of a policy with min_items <= max_items.
C2_StopsAtMaxWhenMinReached ==
  /\ (engine # None /\ Len(engine.administered_items) >= engine.max_items
        /\ Len(engine.administered_items) >= engine.min_items)
       => /\ ~should_continue(engine)
          /\ ret.call = "should_continue" => ret.value = FALSE
  /\ \A sid \in 1..Len(cat_sessions) :
       LET e == SessionEngine(sid)
       IN (Len(e.administered_items) >= e.max_items
             /\ Len(e.administered_items) >= e.min_items)
            => ~should_continue(e)

\* should_continue() has returned false at exactly max_items with an SE
\* above the target
C2_Witness ==
  /\ engine # None
  /\ Len(engine.administered_items) = engine.max_items
  /\ engine.min_items <= engine.max_items
  /\ standard_error(engine.items, engine.current_theta, engine.administered_items)
       > engine.target_se
  /\ ret.call = "should_continue"
  /\ ret.value = FALSE

\* C3: below min_items should_continue() is true, whatever the SE.
C3_ContinuesBelowMin ==
  /\ (engine # None /\ Len(engine.administered_items) < engine.min_items)
       => /\ should_continue(engine)
          /\ ret.call = "should_continue" => ret.value = TRUE
  /\ \A sid \in 1..Len(cat_sessions) :
       LET e == SessionEngine(sid)
       IN Len(e.administered_items) < e.min_items => should_continue(e)

\* should_continue() has returned true below min_items although the SE has
\* reached the target
C3_Witness ==
  /\ engine # None
  /\ Len(engine.administered_items) < engine.min_items
  /\ standard_error(engine.items, engine.current_theta, engine.administered_items)
       <= engine.target_se
  /\ ret.call = "should_continue"
  /\ ret.value = TRUE

\* .filter(CATItemResponse.session_id == sid).all() on a given table
ResponsesIn(table, sid) == SelectSeq(table, LAMBDA r : r.session_id = sid)

\* C4 as stated: a process_response call for an item id the engine has
\* already administered raises and leaves theta, the administered items and
\* the responses as they were.
C4_DuplicateRejected ==
  [][(/\ engine # None
      /\ ret'.call = "process_response"
      /\ InSeq(ret'.item_id, engine.administered_items))
       => (ret'.raised # "" /\ engine' = engine)]_vars

\* C5: process_response for an item id that is not in the bank raises and
\* leaves the engine as it was; a submit request for such an item id fails,
\* with "Item not found" when the session accepts answers, starts no write
\* and leaves every table as it was.
C5_UnknownItemRejected ==
  /\ [][(/\ engine # None
         /\ ret'.call = "process_response"
         /\ FindItem(engine.items, ret'.item_id) = None)
          => (ret'.raised = "ValueError" /\ engine' = engine)]_vars
  /\ [][\A w \in Workers, sid \in 1..MaxSessions, o \in Options,
           item_id \in 1..(NumItems + 1) :
          (item_id \notin 1..Len(cat_items) /\ SubmitBegin(w, sid, item_id, o))
            => /\ UNCHANGED dbvars
               /\ threads'[w].pc = "idle"
               /\ last'.kind = "submit"
               /\ last'.status \in {400, 404}
               /\ (/\ Upper(o) \in {"A", "B", "C", "D"}
                   /\ sid \in 1..Len(cat_sessions)
                   /\ cat_sessions[sid].is_active
                   /\ cat_sessions[sid].num_items_administered < SUBMIT_MAX_QUESTIONS)
                    => last'.detail = "Item not found"]_vars

\* a submit for an unknown item has failed on a session that holds an
\* answer and stays active
C5_Witness ==
  /\ last = [kind |-> "submit", status |-> 404, detail |-> "Item not found"]
  /\ \E sid \in 1..Len(cat_sessions) :
       /\ cat_sessions[sid].is_active
       /\ Len(ResponsesOf(sid)) >= 1

\* C6 as stated: once a session is not active, its responses, its theta and
\* its administered count never change.
C6_CompleteSessionFrozen ==
  [][\A sid \in 1..Len(cat_sessions) :
       ~cat_sessions[sid].is_active
         => /\ ResponsesIn(cat_item_responses', sid) = ResponsesIn(cat_item_responses, sid)
            /\ cat_sessions'[sid].current_theta = cat_sessions[sid].current_theta
            /\ cat_sessions'[sid].num_items_administered
                 = cat_sessions[sid].num_items_administered]_vars

\* C7: a session stops being active only in the commit of a complete
\* request for it.
C7_OnlyCompleteCloses ==
  [][\A sid \in 1..Len(cat_sessions) :
       (cat_sessions[sid].is_active /\ ~cat_sessions'[sid].is_active)
         => \E w \in Workers :
              /\ threads[w].pc = "complete_commit"
              /\ threads[w].session_id = sid
              /\ threads'[w].pc = "idle"
              /\ last'.kind = "complete"]_vars

\* a submit has answered should_continue = false and the session is still
\* active
C7_Witness ==
  /\ last = [kind |-> "submit", status |-> 200, detail |-> "stop"]
  /\ \E sid \in 1..Len(cat_sessions) :
       /\ cat_sessions[sid].is_active
       /\ ~should_continue(SessionEngine(sid))

\* C8 as stated: an application never has two active sessions.
C8_OneActiveSessionPerApplication ==
  \A a \in DOMAIN applications : Cardinality(ActiveSessionsOf(a)) <= 1

\* C9 as stated: no two stored responses have the same session and item.
C9_OneResponsePerSessionItem ==
  \A j, k \in 1..Len(cat_item_responses) :
    (/\ cat_item_responses[j].session_id = cat_item_responses[k].session_id
     /\ cat_item_responses[j].item_id = cat_item_responses[k].item_id)
      => j = k

\* C10 as stated: no two submit requests for the same session are past
\* their checks and before their commit at the same time.
C10_OneSubmitInFlightPerSession ==
  \A v, w \in InFlight("submit_commit") :
    threads[v].session_id = threads[w].session_id => v = w

\* the engines of a state: the directly driven one and the one a handler
\* builds for each stored session
Engines ==
  (IF engine # None THEN {engine} ELSE {})
    \cup {SessionEngine(sid) : sid \in 1..Len(cat_sessions)}

Unadministered(e) ==
  {e.items[k] : k \in {j \in 1..Len(e.items) :
                         ~InSeq(e.items[j].id, e.administered_items)}}

\* C11: select_next_item never returns an administered item, and returns
\* None exactly when the bank holds no unadministered item (every item
\* administered, or no item at all).
C11_SelectsOnlyUnadministered ==
  /\ \A e \in Engines :
       LET item == select_next_item(e)
       IN /\ item # None => item \in Unadministered(e)
          /\ item = None <=> Unadministered(e) = {}
  /\ (engine # None /\ ret.call = "select_next_item")
       => /\ ret.value # 0 => ~InSeq(ret.value, engine.administered_items)
          /\ ret.value = 0 <=> Unadministered(engine) = {}

\* select_next_item has returned None on a bank of which every item was
\* administered
C11_Witness ==
  /\ engine # None
  /\ engine.items # <<>>
  /\ Unadministered(engine) = {}
  /\ ret.call = "select_next_item"
  /\ ret.value = 0

InfoAt(e, item) == item_information(e.current_theta, item.a, item.b, item.c)

\* the candidate pool after the difficulty window: items with b above
\* theta - 0.5 after a correct answer, below theta + 0.5 after a wrong one,
\* every unadministered item when that leaves none or nothing was answered
WindowedPool(e) ==
  LET available == Unadministered(e)
      window ==
        IF Len(e.responses) = 0 THEN available
        ELSE IF e.responses[Len(e.responses)].is_correct
        THEN {x \in available : x.b > e.current_theta - 500}
        ELSE {x \in available : x.b < e.current_theta + 500}
  IN IF window = {} THEN available ELSE window

\* C12 as stated: no unadministered item has strictly higher information
\* than the item select_next_item returns.
C12_HighestInformationOfBank ==
  \A e \in Engines :
    LET item == select_next_item(e)
    IN item # None
         => \A x \in Unadministered(e) : InfoAt(e, x) <= InfoAt(e, item)

\* C12 amended: the item select_next_item returns belongs to the windowed
\* pool and no item of that pool has strictly higher information.
C12_HighestInformationOfPool ==
  \A e \in Engines :
    LET item == select_next_item(e)
    IN item # None
         => /\ item \in WindowedPool(e)
            /\ \A x \in WindowedPool(e) : InfoAt(e, x) <= InfoAt(e, item)

\* select_next_item has returned an item of the window, after answers to
\* distinct items, while an item the window left out has strictly higher
\* information
C12_Witness ==
  /\ engine # None
  /\ ret.call = "select_next_item"
  /\ ret.value # 0
  /\ Len(engine.responses) > 0
  /\ \A i, j \in 1..Len(engine.administered_items) :
       engine.administered_items[i] = engine.administered_items[j] => i = j
  /\ \E x \in Unadministered(engine) \ WindowedPool(engine) :
       InfoAt(engine, x) > InfoAt(engine, FindItem(engine.items, ret.value))

\* C13 as stated: a next-item request on a session whose bank is exhausted
\* while should_continue() is still true leaves the session complete.
C13_ExhaustedBankCompletes ==
  [][\A w \in Workers, sid \in 1..Len(cat_sessions) :
       (/\ NextItem(w, sid)
        /\ cat_sessions[sid].is_active
        /\ cat_items # <<>>
        /\ should_continue(SessionEngine(sid))
        /\ select_next_item(SessionEngine(sid)) = None)
         => ~cat_sessions'[sid].is_active]_vars

\* a calibration run writes the bank: the commit of a complete request, or
\* a run on its own
CalibrationStep ==
  \/ \E w \in Workers : CompleteCommit(w)
  \/ \E min_users \in MinUsers, outcome \in EstimatorOutcomes :
       Recalibrate(min_users, outcome)

\* the candidates that have a completed session
CompletedCandidates ==
  {applications[cat_sessions[sid].application_id].candidate_id :
     sid \in {k \in 1..Len(cat_sessions) :
                /\ ~cat_sessions[k].is_active
                /\ cat_sessions[k].application_id \in DOMAIN applications}}

\* C14 as stated: a calibration run with fewer than min_users distinct
\* candidates holding a completed session reports a skip and changes no
\* item's a, b or c.
C14_SparseDataSkipped ==
  [][\A min_users \in MinUsers :
       (/\ \E outcome \in EstimatorOutcomes : Recalibrate(min_users, outcome)
        /\ Cardinality(CompletedCandidates) < min_users)
         => /\ ret'.skipped
            /\ ToCatItems(cat_items') = ToCatItems(cat_items)]_vars

\* C15 as stated: every item of which a calibration run changes a, b or c
\* ends with b in [-3.0, 3.0], a >= 0.5 and c in [0.0, 0.4].
C15_WrittenItemsClamped ==
  [][CalibrationStep
       => \A k \in 1..Len(cat_items) :
            <<cat_items'[k].a, cat_items'[k].b, cat_items'[k].c>>
                # <<cat_items[k].a, cat_items[k].b, cat_items[k].c>>
              => /\ cat_items'[k].b >= B_MIN /\ cat_items'[k].b <= B_MAX
                 /\ cat_items'[k].a >= A_MIN
                 /\ cat_items'[k].c >= 0 /\ cat_items'[k].c <= 40]_vars

\* C16 as stated: every item of the bank has a in [0.5, 2.0], b in
\* [-3.0, 3.0] and c in [0.15, 0.30].
C16_BankWithinRanges ==
  \A k \in 1..Len(cat_items) :
    /\ cat_items[k].a >= A_MIN /\ cat_items[k].a <= A_MAX
    /\ cat_items[k].b >= B_MIN /\ cat_items[k].b <= B_MAX
    /\ cat_items[k].c >= C_MIN /\ cat_items[k].c <= C_MAX

\* the banks a run leaves when it goes through: the estimator's path on
\* every item, or the fallback alone (which is the bank as it was when the
\* run is skipped or no item has enough answers)
WholeRuns(loaded_items, rows, min_users) ==
  {CommitItems(cat_items,
               recalibrate_item_bank(loaded_items, rows, min_users, outcome).items) :
     outcome \in {"ok", "unavailable"}} \cup {cat_items}

\* C17 as stated: the bank a calibration run commits is the bank of a run
\* that went through or the bank as it was, never part of the estimator's
\* updates.
C17_CalibrationAllOrNothing ==
  [][/\ \A w \in Workers :
          CompleteCommit(w)
            => cat_items' \in WholeRuns(threads[w].cat_items, threads[w].rows, 1)
     /\ \A min_users \in MinUsers :
          (\E outcome \in EstimatorOutcomes : Recalibrate(min_users, outcome))
            => cat_items' \in WholeRuns(ToCatItems(cat_items), CompletedResponses,
                                        min_users)]_vars

WithoutActive ==
  SelectSeq(cat_item_responses,
            LAMBDA r : ~(r.session_id \in 1..Len(cat_sessions)
                           /\ cat_sessions[r.session_id].is_active))

\* the responses of active sessions turned from right to wrong and back
ActiveFlipped ==
  [k \in 1..Len(cat_item_responses) |->
     LET r == cat_item_responses[k]
     IN IF r.session_id \in 1..Len(cat_sessions) /\ cat_sessions[r.session_id].is_active
        THEN [r EXCEPT !.is_correct = ~@]
        ELSE r]

\* the min_users a run can be given: 1 by complete_cat_exam, any value by a
\* run on its own
MinUsersHere ==
  IF \A w \in Workers : threads[w] = Offline THEN MinUsers ELSE {1}

\* C19: whether a calibration run is skipped and the parameters it leaves
\* are the same when the responses of the active sessions are removed from
\* the table or changed, for every min_users the run can be given and every
\* estimator outcome.
C19_ActiveResponsesIgnored ==
  (\E k \in 1..Len(cat_sessions) : cat_sessions[k].is_active)
    => \A variant \in {WithoutActive, ActiveFlipped} :
         \A min_users \in MinUsersHere, outcome \in EstimatorOutcomes :
           recalibrate_item_bank(ToCatItems(cat_items),
                                 CompletedIn(cat_sessions, variant),
                                 min_users, outcome)
             = recalibrate_item_bank(ToCatItems(cat_items), CompletedResponses,
                                     min_users, outcome)

\* a run on its own has written parameters while active sessions held
\* responses
C19_Witness ==
  /\ ret.call = "recalibrate_item_bank"
  /\ ~ret.skipped
  /\ \E k \in 1..Len(cat_item_responses) :
       cat_sessions[cat_item_responses[k].session_id].is_active
  /\ \E k \in 1..Len(cat_items) : cat_items[k].b # SeedItem(k).b

\* C20 as stated: at most one calibration run is between its query of the
\* completed responses and its commit.
C20_OneCalibrationRunAtATime ==
  Cardinality(InFlight("complete_commit")) <= 1

\* the first item, in bank order, of greatest information among the pool
FirstMaximal(e, pool) ==
  LET best == {k \in 1..Len(e.items) :
                 /\ e.items[k] \in pool
                 /\ \A x \in pool : InfoAt(e, x) <= InfoAt(e, e.items[k])}
  IN e.items[CHOOSE k \in best : \A j \in best : k <= j]

\* C21: select_next_item on a bank with an unadministered item returns the
\* first item, in bank order, of greatest information among the pool, the
\* pool being every unadministered item when nothing was answered, those
\* with b > theta - 0.5 after a correct last answer, those with
\* b < theta + 0.5 after a wrong one, and every unadministered item when
\* that restriction leaves none.
C21_WindowThenFirstMaximal ==
  /\ \A e \in Engines :
       Unadministered(e) # {}
         => select_next_item(e) = FirstMaximal(e, WindowedPool(e))
  /\ (engine # None /\ ret.call = "select_next_item" /\ ret.value # 0)
       => ret.value = FirstMaximal(engine, WindowedPool(engine)).id

\* select_next_item has returned the first of two items of the window that
\* tie on the greatest information, the window having left out an
\* unadministered item
C21_Witness ==
  /\ engine # None
  /\ ret.call = "select_next_item"
  /\ ret.value # 0
  /\ Len(engine.responses) > 0
  /\ WindowedPool(engine) # Unadministered(engine)
  /\ \E x \in WindowedPool(engine) :
       /\ x.id > ret.value
       /\ InfoAt(engine, x) = InfoAt(engine, FindItem(engine.items, ret.value))

\* SE at the engine's theta over its administered items
CurrentSE(e) == standard_error(e.items, e.current_theta, e.administered_items)

\* the administered count is at least min_items and below max_items
BetweenMinAndMax(e) ==
  /\ Len(e.administered_items) >= e.min_items
  /\ Len(e.administered_items) < e.max_items

\* C22: with the administered count at least min_items and below max_items,
\* should_continue() is true exactly when the SE at the current theta over
\* the administered items is strictly above target_se; an infinite SE
\* (no information) therefore continues.
C22_ContinuesExactlyAboveTarget ==
  /\ \A e \in Engines :
       BetweenMinAndMax(e)
         => /\ should_continue(e) <=> CurrentSE(e) > e.target_se
            /\ CurrentSE(e) = Inf => should_continue(e)
  /\ (engine # None /\ ret.call = "should_continue" /\ BetweenMinAndMax(engine))
       => (ret.value <=> CurrentSE(engine) > engine.target_se)

\* should_continue() has answered false below max_items because the SE of
\* the administered items had reached target_se
C22_Witness ==
  /\ engine # None
  /\ ret.call = "should_continue"
  /\ ret.value = FALSE
  /\ BetweenMinAndMax(engine)
  /\ Len(engine.administered_items) >= 1
  /\ CurrentSE(engine) <= engine.target_se

\* the outcomes of the estimator after which the run ends in the fallback
\* path (cat_engine.py 391-424)
FallbackOutcomes == {"unavailable", "raise", "partial"}

\* the number of responses the run counts for item k of the bank
ResponsesCounted(rows, k) ==
  Cardinality(ValidResponses(SessionResponses(rows), cat_items, k))

\* a run over `rows` ending in the fallback path leaves every a and c, and
\* the b of the items with fewer than 5 responses, as they were
FallbackFrame(rows) ==
  \A k \in 1..Len(cat_items) :
    /\ cat_items'[k].a = cat_items[k].a
    /\ cat_items'[k].c = cat_items[k].c
    /\ (rows = <<>> \/ ResponsesCounted(rows, k) < 5)
         => cat_items'[k].b = cat_items[k].b

\* C23 as stated: a calibration run that ends through the fallback path,
\* the estimator missing, failing before it returns or failing after the
\* first item was updated, changes only the b of items with at least 5
\* responses.
C23_FallbackWritesOnlyB ==
  [][/\ \A min_users \in MinUsers, outcome \in FallbackOutcomes :
          Recalibrate(min_users, outcome) => FallbackFrame(CompletedResponses)
     /\ \A w \in Workers, outcome \in FallbackOutcomes :
          (/\ CompleteCommit(w)
           /\ cat_items' = CommitItems(cat_items,
                recalibrate_item_bank(threads[w].cat_items, threads[w].rows,
                                      1, outcome).items))
            => FallbackFrame(threads[w].rows)]_vars

\* the outcomes in which the fallback loop raises
FallbackFaults == {"fallback_raise_1", "fallback_raise_2"}

\* the committed bank holds, for every item with at least 5 responses other
\* than the one the fallback loop raised at, the b the fallback gives it
OthersUpdated(loaded_items, rows, min_users, outcome) ==
  LET whole == CommitItems(cat_items,
                 recalibrate_item_bank(loaded_items, rows, min_users,
                                       "unavailable").items)
  IN \A k \in 1..Len(cat_items) :
       (k # FallbackRaisesAt(outcome, cat_items) /\ ResponsesCounted(rows, k) >= 5)
         => cat_items'[k].b = whole[k].b

\* C24 as stated: when the fallback loop raises while it updates one item,
\* every other item with at least 5 responses has its blended b committed
\* by the run.
C24_FallbackItemsIsolated ==
  [][/\ \A min_users \in MinUsers, outcome \in FallbackFaults :
          (/\ Recalibrate(min_users, outcome)
           /\ ret'.raised)
            => OthersUpdated(ToCatItems(cat_items), CompletedResponses,
                             min_users, outcome)
     /\ \A w \in Workers, outcome \in FallbackFaults :
          (/\ CompleteCommit(w)
           /\ recalibrate_item_bank(threads[w].cat_items, threads[w].rows,
                                    1, outcome).raised
           /\ cat_items' = CommitItems(cat_items,
                recalibrate_item_bank(threads[w].cat_items, threads[w].rows,
                                      1, outcome).items))
            => OthersUpdated(threads[w].cat_items, threads[w].rows, 1, outcome)]_vars

\* the results count the correct responses and the administered items, and
\* are all 0 on an engine without responses
CountsRight(e, results) ==
  /\ results.num_correct =
       Cardinality({k \in 1..Len(e.responses) : e.responses[k].is_correct})
  /\ results.num_items = Len(e.administered_items)
  /\ Len(e.responses) = 0
       => (results.accuracy = 0 /\ results.num_correct = 0)
  /\ Len(e.administered_items) = 0 => results.num_items = 0

\* C25: get_final_results on an engine without responses answers accuracy
\* 0, num_correct 0 and num_items 0; with responses, num_correct is the
\* number of correct responses and num_items the number of administered
\* items; the call leaves the engine as it was, and the commit of a
\* complete request stores these counts and leaves the session's theta, its
\* administered count and the responses as they were.
C25_FinalResultsCountAndKeep ==
  /\ [](/\ \A e \in Engines : CountsRight(e, get_final_results(e))
        /\ (engine # None /\ ret.call = "get_final_results")
             => CountsRight(engine, ret.value))
  /\ [][/\ EngGetFinalResults => engine' = engine
        /\ \A w \in Workers :
             CompleteCommit(w)
               => LET sid == threads[w].session_id
                      n == Len(threads[w].responses)
                  IN /\ cat_sessions'[sid].current_theta = cat_sessions[sid].current_theta
                     /\ cat_sessions'[sid].num_items_administered
                          = cat_sessions[sid].num_items_administered
                     /\ cat_item_responses' = cat_item_responses
                     /\ cat_sessions'[sid].num_correct =
                          Some(Cardinality({k \in 1..n :
                                              threads[w].responses[k].is_correct}))
                     /\ n = 0 => cat_sessions'[sid].accuracy = Some(0)]_vars

\* a complete request has closed a session without responses with accuracy
\* 0 and num_correct 0
C25_Witness ==
  /\ last.kind = "complete"
  /\ last.status = 200
  /\ \E sid \in 1..Len(cat_sessions) :
       /\ ~cat_sessions[sid].is_active
       /\ ResponsesOf(sid) = <<>>
       /\ cat_sessions[sid].accuracy = Some(0)
       /\ cat_sessions[sid].num_correct = Some(0)

\* C26 as stated: the num_items_administered of every session is the number
\* of stored responses of that session.
C26_CounterMatchesResponses ==
  \A sid \in 1..Len(cat_sessions) :
    cat_sessions[sid].num_items_administered = Len(ResponsesOf(sid))

\* the stored responses to an item
ResponsesTo(item_id) ==
  SelectSeq(cat_item_responses, LAMBDA r : r.item_id = item_id)

\* C29 as stated: the used_count of every item is the number of stored
\* responses to it and its correct_count the number of those that are
\* correct.
C29_ItemCountersMatchResponses ==
  \A k \in 1..Len(cat_items) :
    /\ cat_items[k].used_count = Len(ResponsesTo(cat_items[k].id))
    /\ cat_items[k].correct_count =
         Len(SelectSeq(ResponsesTo(cat_items[k].id), LAMBDA r : r.is_correct))
    /\ cat_items[k].correct_count <= cat_items[k].used_count

\* C27 as stated: no session holds more responses than max_items.
C27_NeverMoreThanMaxItems ==
  \A sid \in 1..Len(cat_sessions) : Len(ResponsesOf(sid)) <= DEFAULT_MAX_ITEMS

\* the final-result fields complete_cat_exam assigns (main.py 2034-2040)
FinalFieldsSet(s) ==
  /\ s.completed_at # Null
  /\ s.final_theta # Null
  /\ s.final_se # Null
  /\ s.num_correct # Null
  /\ s.accuracy # Null

FinalFieldsUnset(s) ==
  /\ s.completed_at = Null
  /\ s.final_theta = Null
  /\ s.final_se = Null
  /\ s.num_correct = Null
  /\ s.accuracy = Null

\* a session is inactive exactly when its final-result fields are set
InactiveIffFinal ==
  \A sid \in 1..Len(cat_sessions) :
    IF cat_sessions[sid].is_active
    THEN FinalFieldsUnset(cat_sessions[sid])
    ELSE FinalFieldsSet(cat_sessions[sid])

\* an application is marked cat_completed exactly when it has an inactive
\* session
CompletedIffInactiveSession ==
  \A a \in DOMAIN applications :
    applications[a].cat_completed <=>
      \E sid \in 1..Len(cat_sessions) :
        cat_sessions[sid].application_id = a /\ ~cat_sessions[sid].is_active

\* a step leaves every inactive session inactive
InactiveStays ==
  \A sid \in 1..Len(cat_sessions) :
    ~cat_sessions[sid].is_active => ~cat_sessions'[sid].is_active

\* a step creates no session for an application marked cat_completed
NoSessionAfterCompleted ==
  \A sid \in (1..Len(cat_sessions')) \ (1..Len(cat_sessions)) :
    LET a == cat_sessions'[sid].application_id
    IN a \in DOMAIN applications => ~applications[a].cat_completed

\* C28 as stated: a session is inactive exactly when its final-result fields
\* are set, an inactive session never becomes active again, an application is
\* marked cat_completed exactly when it has an inactive session, and start
\* creates no session for an application that is marked cat_completed.
C28_CompletedOnce ==
  /\ [](InactiveIffFinal /\ CompletedIffInactiveSession)
  /\ [][InactiveStays /\ NoSessionAfterCompleted]_vars

\* the run complete_cat_exam starts, as worker w is about to make it
RunOfComplete(w, outcome) ==
  recalibrate_item_bank(threads[w].cat_items, threads[w].rows, 1, outcome)

\* C30 as stated: when the calibration run started by complete_cat_exam
\* raises, the session is committed inactive with its final results and the
\* bank is committed as it was.
C30_FailedRunCommitsNothing ==
  [][\A w \in Workers, outcome \in EstimatorOutcomes :
       (/\ CompleteCommit(w)
        /\ RunOfComplete(w, outcome).raised
        /\ cat_items' = CommitItems(cat_items, RunOfComplete(w, outcome).items))
       => /\ ~cat_sessions'[threads[w].session_id].is_active
          /\ FinalFieldsSet(cat_sessions'[threads[w].session_id])
          /\ cat_items' = cat_items]_vars

====
